---- MODULE Spec2Model ----
(***************************************************************************)
(* wasmt: thread-like spawn/join/abort for wasm32.                         *)
(*                                                                         *)
(* One unit of work is spawned by an owner; the owner holds the join       *)
(* handle.  The work runs either on the owner's own cooperative scheduler  *)
(* (spawn_local) or on a web worker that shares linear memory with the     *)
(* owner (spawn, spawn_blocking).  Result delivery goes through a          *)
(* futures::channel::oneshot channel, cancellation through a               *)
(* futures::future::Abortable wrapper.                                     *)
(*                                                                         *)
(* The oneshot channel is modelled at the granularity of its atomic        *)
(* operations (Inner::send, Inner::recv, Inner::close_rx, Inner::drop_tx,  *)
(* FusedFuture::is_terminated), because for the worker variants sender and *)
(* receiver run in parallel on shared memory.  For the local variants the  *)
(* same steps are taken, but the owner and the work never interleave       *)
(* inside one another's steps (one thread).                                *)
(*                                                                         *)
(* The owner is either a root caller or the body of an outer task that a    *)
(* root caller spawned and may abort: the outer Abortable then drops the    *)
(* body, and with it the handle the body holds.                            *)
(*                                                                         *)
(* A panic of the work has two outcomes, depending on the panic strategy   *)
(* of the build: it unwinds (the async block and its tx are dropped), or   *)
(* it aborts (the wasm32 instance traps and nothing is dropped).           *)
(***************************************************************************)
EXTENDS Integers, Sequences, FiniteSets, TLC

\* Largest number of suspension points (.await that returns Pending) in the work.
MaxSuspend == 2
\* The work's result is drawn from 1..MaxVal.
MaxVal == 2

\* abort() calls on one handle are counted up to MaxAborts.
MaxAborts == 2

\* A duration in milliseconds is dur_hi * 2^31 + dur_lo with dur_hi in
\* 0..MaxHi and 0 <= dur_lo < 2^31 (two words, so that every number the
\* model computes stays within the checker's integers).
MaxHi == 2
\* i32::MAX, 2^31 - 1.
MaxI32 == 2147483647

Values == 1..MaxVal

VARIABLES
    variant,     \* which spawn function created the handle
    wlen,        \* the work: number of suspension points before it is Ready
    wpanic,      \* the work: segment in which it panics (0: it does not panic)
    wval,        \* the work: the value it produces
    wjs,         \* the work: "rust" future, or a JS promise that is "fulfilled" / "rejected"
    desc,        \* the leaked work descriptor (worker::spawn / worker::spawn_blocking)
    wpc,         \* position of the wrapped work
    seg,         \* suspension points the work has passed
    wend,        \* how the wrapped work ended
    abort_flag,  \* AbortInner.aborted, shared by AbortHandle and Abortable
    complete,    \* oneshot Inner.complete
    data,        \* oneshot Inner.data: <<>> is None, <<v>> is Some(v)
    aborted,     \* JoinHandle.aborted
    opc,         \* position of the owner of the handle
    join_tag,    \* what join() returned: "none", "Ok", "Aborted", "Panic"
    join_val,    \* the value of Ok(v), 0 otherwise
    last_fin,    \* what the last is_finished() returned: "none", "true", "false"
    fin_after_abort, \* history: what the first is_finished() after the last abort() returned
    recv_count,  \* history: number of values the consumer received
    abort_when,  \* history: progress of the work when abort() was first called
    close_when,  \* history: progress of the work when abort() first returned
    abort_after_sent, \* history: abort() was called after tx.send returned Ok
    ever_yielded, \* history: the owner has suspended since it got the handle
    abort_calls, \* history: number of abort() calls on the handle (up to MaxAborts)
    outer,       \* the task whose body the owner is: "none", "spawn_local", "spawn"
    outer_abort_flag, \* AbortInner.aborted of the outer task
    outer_complete, \* oneshot Inner.complete of the outer task's channel
    outer_data,  \* oneshot Inner.data of the outer task's channel
    outer_end,   \* how the outer task's wrapper ended
    outer_fin,   \* what the root's last is_finished() on the outer handle returned
    outer_join_tag, \* what the root's join() on the outer handle returned
    outer_join_val, \* the value of its Ok(v), 0 otherwise
    js_kind,     \* what JsJoinHandle.join() did: "none", "resolve", "reject"
    js_val,      \* the JS value it resolved or rejected with (0: none)
    js_text,     \* the text it rejected with ("": none)
    sleep_pc,    \* time::sleep: "idle", "timer_set", "resolved"
    sleep_entry, \* the function last called: "none", "sleep", "sleep_ms"
    sleep_scope, \* the global scope it found: "none", "window", "worker"
    dur_hi,      \* its duration, in milliseconds: high word
    dur_lo,      \* its duration, in milliseconds: low 31 bits
    timer_delay  \* the i32 delay passed to the host's setTimeout

vars == <<variant, wlen, wpanic, wval, desc, wpc, seg, wend, abort_flag, complete,
          data, aborted, opc, join_tag, join_val, last_fin, fin_after_abort,
          recv_count, abort_when, close_when, abort_after_sent, wjs,
          ever_yielded, abort_calls, outer, outer_abort_flag, js_kind, js_val,
          js_text, outer_complete, outer_data, outer_end, outer_fin,
          outer_join_tag, outer_join_val, sleep_pc, sleep_entry, sleep_scope,
          dur_hi, dur_lo, timer_delay>>

workVars == <<variant, wlen, wpanic, wval, wjs>>
histVars == <<recv_count, abort_when, close_when, abort_after_sent, ever_yielded,
              abort_calls>>
outerVars == <<outer, outer_abort_flag>>
rootVars == <<outer_complete, outer_data, outer_end, outer_fin, outer_join_tag,
              outer_join_val>>
jsVars == <<js_kind, js_val, js_text>>
sleepVars == <<sleep_pc, sleep_entry, sleep_scope, dur_hi, dur_lo, timer_delay>>

----------------------------------------------------------------------------
\* The spawn functions that return a join handle.

Variants == {"task_spawn", "task_spawn_local", "task_spawn_blocking",
             "thread_spawn", "thread_spawn_local", "js_spawn", "js_spawn_local"}

\* wasm_bindgen_futures::spawn_local: the work runs on the owner's scheduler.
IsLocal(v) == v \in {"task_spawn_local", "thread_spawn_local", "js_spawn_local"}

\* js_spawn / js_spawn_local: the work is JsFuture::from(promise), the handle a
\* JsJoinHandle.
IsJs(v) == v \in {"js_spawn", "js_spawn_local"}

\* task::spawn_blocking: a plain closure on a worker, blocking::JoinHandle.
IsBlocking(v) == v = "task_spawn_blocking"

\* worker::spawn / worker::spawn_blocking: the work runs on a new web worker.
IsWorker(v) == ~IsLocal(v)

\* Faulty variant: only the task module's handles cancel the work.
CanAbortTaskOnly(v) == v \in {"task_spawn", "task_spawn_local", "js_spawn", "js_spawn_local"}

\* Faulty variant: the blocking handle is given abort() too.
CanAbortAlways(v) == TRUE

\* The handle has abort() (r#async::JoinHandle, crate::JoinHandle);
\* blocking::JoinHandle has none.

CanAbort(v) == ~IsBlocking(v)

----------------------------------------------------------------------------
\* Positions of the wrapped work.

SendPcs == {"send_check", "send_store", "send_recheck", "send_takeback", "drop_tx"}

\* The work is not in the middle of a poll: on one thread, only then can the
\* owner run.
WorkAtRest == wpc \in {"none", "queued", "suspended", "done", "panicked", "trapped",
                       "init_failed"}

\* The owner is not in the middle of a handle operation: on one thread, only
\* then can the work be polled.
OwnerAtRest == opc \in {"start", "no_handle", "yielded", "joining", "joined",
                        "dropped", "cancelled"}

\* The receiver holds the lock of Inner.data (between try_lock and the end of
\* is_terminated / recv).
RxHoldsLock == opc \in {"isfin_locked", "join_locked"}

\* Faulty variant: spawn_local polls the work inline, under the caller.
WorkMayStepInline == TRUE

\* One thread: a local work is polled only while the owner is suspended or
\* has ended; the owner runs only between two polls of the work.

WorkMayStep == IsLocal(variant) => OwnerAtRest
OwnerMayStep == IsLocal(variant) => WorkAtRest

\* How far the work is, as seen when the owner calls abort().
Progress ==
    CASE wpc = "queued" -> "unstarted"
      [] wpc = "running" /\ seg = 0 -> "first_segment"
      [] wpc = "running" -> "later_segment"
      [] wpc = "suspended" -> "suspended"
      [] wpc \in SendPcs /\ wend = "sent" -> "sent"
      [] wpc \in SendPcs /\ wend = "discarded" -> "terminated"
      [] wpc = "send_check" -> "before_send"
      [] wpc \in SendPcs -> "sending"
      [] wpc = "done" /\ wend = "sent" -> "sent"
      [] OTHER -> "terminated"

----------------------------------------------------------------------------
Init ==
    /\ variant = "none"
    /\ wlen = 0
    /\ wpanic = 0
    /\ wval = 0
    /\ desc = "none"
    /\ wpc = "none"
    /\ seg = 0
    /\ wend = "none"
    /\ abort_flag = FALSE
    /\ complete = FALSE
    /\ data = <<>>
    /\ aborted = FALSE
    /\ opc = "start"
    /\ join_tag = "none"
    /\ join_val = 0
    /\ last_fin = "none"
    /\ fin_after_abort = "none"
    /\ recv_count = 0
    /\ abort_when = "never"
    /\ close_when = "never"
    /\ abort_after_sent = FALSE
    /\ wjs = "rust"
    /\ ever_yielded = FALSE
    /\ abort_calls = 0
    /\ outer = "none"
    /\ outer_abort_flag = FALSE
    /\ outer_complete = FALSE
    /\ outer_data = <<>>
    /\ outer_end = "none"
    /\ outer_fin = "none"
    /\ outer_join_tag = "none"
    /\ outer_join_val = 0
    /\ js_kind = "none"
    /\ js_val = 0
    /\ js_text = ""
    /\ sleep_pc = "idle"
    /\ sleep_entry = "none"
    /\ sleep_scope = "none"
    /\ dur_hi = 0
    /\ dur_lo = 0
    /\ timer_delay = 0


----------------------------------------------------------------------------
\* The owner: spawning.

\* The work a caller can hand to spawn function v: len suspension points, a
\* panic in segment pan (0: none), the value val.  A blocking closure has no
\* suspension point.  The work of js_spawn / js_spawn_local is a promise: it
\* settles after one suspension point, fulfilled or rejected with val.
PromiseKinds == {"fulfilled", "rejected"}

WorkShapes(v) ==
    {w \in [len : 0..MaxSuspend, pan : 0..(MaxSuspend + 1), val : Values,
            js : PromiseKinds \cup {"rust"}] :
        /\ w.pan <= w.len + 1
        /\ IsBlocking(v) => w.len = 0
        /\ IsJs(v) <=> w.js \in PromiseKinds
        /\ IsJs(v) => (w.len = 1 /\ w.pan = 0)}

\* What the context provisioner can answer to spawn function v.
Provision(v) ==
    IF IsLocal(v) THEN {"ok"}
    ELSE IF IsBlocking(v) THEN {"ok", "create_fail", "transfer_fail"}
    ELSE {"ok", "transfer_fail"}

\* What worker::spawn / worker::spawn_blocking leave of the descriptor.
DescAfterSpawn(v, prov) ==
    IF IsLocal(v) THEN "none"
    ELSE IF prov = "ok" THEN "leaked"
    ELSE IF prov = "create_fail" THEN "never_leaked"
    ELSE "dropped_by_sender"

\* Faulty variant: the provisioning failure is swallowed and a handle is
\* returned all the same.
OwnerAfterSpawnDeferred(prov) == "idle"

\* Where the caller of the spawn function is once the provisioner answered:
\* it holds a handle, or result.expect(..) / panic!(..) ended the call.

OwnerAfterSpawn(prov) == IF prov = "ok" THEN "idle" ELSE "no_handle"

\* The owner is the body of a task that a root caller spawned and whose handle
\* the root holds (task.rs tests: a task spawned inside a task).
OuterKinds == {"spawn_local", "spawn"}

SpawnOuter ==
    /\ opc = "start"
    /\ outer = "none"
    /\ outer' \in OuterKinds
    /\ UNCHANGED <<desc, wpc, seg, wend, abort_flag, complete, data, aborted, opc,
                   join_tag, join_val, last_fin, fin_after_abort, outer_abort_flag>>
    /\ UNCHANGED workVars
    /\ UNCHANGED rootVars
    /\ UNCHANGED sleepVars
    /\ UNCHANGED histVars
    /\ UNCHANGED jsVars

\* task::spawn, task::spawn_local, task::spawn_blocking, thread::spawn,
\* thread::spawn_local, js_spawn, js_spawn_local.  A provisioning failure
\* panics inside the spawn function: the caller gets no handle.
Spawn ==
    /\ opc = "start"
    /\ ~(outer = "spawn_local" /\ outer_abort_flag)
    /\ \E v \in Variants : \E w \in WorkShapes(v) : \E prov \in Provision(v) :
        /\ variant' = v
        /\ wlen' = w.len
        /\ wpanic' = w.pan
        /\ wval' = w.val
        /\ wjs' = w.js
        /\ desc' = DescAfterSpawn(v, prov)
        /\ opc' = OwnerAfterSpawn(prov)
        /\ IF prov = "ok"
              THEN /\ wpc' = "queued"
                   /\ complete' = FALSE
              ELSE /\ wpc' = "none"
                   /\ complete' = (prov = "transfer_fail")
    /\ aborted' = FALSE
    /\ abort_flag' = FALSE
    /\ data' = <<>>
    /\ UNCHANGED <<seg, wend, join_tag, join_val, last_fin, fin_after_abort>>
    /\ UNCHANGED histVars
    /\ UNCHANGED outerVars
    /\ UNCHANGED rootVars
    /\ UNCHANGED sleepVars
    /\ UNCHANGED jsVars

----------------------------------------------------------------------------
\* The wrapped work:  if let Ok(result) = abortable_future.await { tx.send(result).ok(); }

\* Faulty variant: the future is spawned without the Abortable wrapper.
AbortSeenNever(v, flag) == FALSE

\* Abortable::poll checks the abort flag before polling the inner future and
\* again after the inner future returned Pending.  A blocking closure is not
\* wrapped.

AbortSeen(v, flag) == CanAbort(v) /\ flag

\* The scheduler (the worker's entry point, or the local executor) polls the
\* wrapped work: at its start, or after a wake-up.  A worker's entry point
\* reclaims the descriptor when it first runs.
PollWork ==
    /\ wpc \in {"queued", "suspended"}
    /\ WorkMayStep
    /\ desc' = IF wpc = "queued" /\ IsWorker(variant) THEN "reclaimed_by_worker" ELSE desc
    /\ IF AbortSeen(variant, abort_flag)
          THEN \* Err(Aborted): the async block ends, tx is dropped unsent
               /\ wpc' = "done"
               /\ wend' = "aborted"
               /\ complete' = TRUE
          ELSE /\ wpc' = "running"
               /\ UNCHANGED <<wend, complete>>
    /\ UNCHANGED <<seg, abort_flag, data, aborted, opc, join_tag, join_val,
                   last_fin, fin_after_abort>>
    /\ UNCHANGED workVars
    /\ UNCHANGED rootVars
    /\ UNCHANGED sleepVars
    /\ UNCHANGED outerVars
    /\ UNCHANGED jsVars
    /\ UNCHANGED histVars

\* The worker's script fails to initialise the module: it rethrows, and the
\* entry point is never called.
WorkerInitFails ==
    /\ wpc = "queued"
    /\ IsBlocking(variant)
    /\ wpc' = "init_failed"
    /\ UNCHANGED <<desc, seg, wend, abort_flag, complete, data, aborted, opc,
                   join_tag, join_val, last_fin, fin_after_abort>>
    /\ UNCHANGED workVars
    /\ UNCHANGED rootVars
    /\ UNCHANGED sleepVars
    /\ UNCHANGED outerVars
    /\ UNCHANGED jsVars
    /\ UNCHANGED histVars

\* The inner future returns Pending at a suspension point.
WorkSuspends ==
    /\ wpc = "running"
    /\ WorkMayStep
    /\ wpanic # seg + 1
    /\ seg < wlen
    /\ seg' = seg + 1
    /\ IF AbortSeen(variant, abort_flag)
          THEN /\ wpc' = "done"
               /\ wend' = "aborted"
               /\ complete' = TRUE
          ELSE /\ wpc' = "suspended"
               /\ UNCHANGED <<wend, complete>>
    /\ UNCHANGED <<desc, abort_flag, data, aborted, opc, join_tag, join_val,
                   last_fin, fin_after_abort>>
    /\ UNCHANGED workVars
    /\ UNCHANGED rootVars
    /\ UNCHANGED sleepVars
    /\ UNCHANGED outerVars
    /\ UNCHANGED jsVars
    /\ UNCHANGED histVars

\* The inner future (or the blocking closure) returns its value: tx.send begins.
WorkReady ==
    /\ wpc = "running"
    /\ WorkMayStep
    /\ wpanic # seg + 1
    /\ seg = wlen
    /\ wpc' = "send_check"
    /\ UNCHANGED <<desc, seg, wend, abort_flag, complete, data, aborted, opc,
                   join_tag, join_val, last_fin, fin_after_abort>>
    /\ UNCHANGED workVars
    /\ UNCHANGED rootVars
    /\ UNCHANGED sleepVars
    /\ UNCHANGED outerVars
    /\ UNCHANGED jsVars
    /\ UNCHANGED histVars

\* The work panics and the panic unwinds: the async block (the closure) is
\* dropped, and tx with it.
WorkPanicsUnwind ==
    /\ wpc = "running"
    /\ WorkMayStep
    /\ wpanic = seg + 1
    /\ wpc' = "panicked"
    /\ wend' = "panic_unwind"
    /\ complete' = TRUE
    /\ UNCHANGED <<desc, seg, abort_flag, data, aborted, opc, join_tag, join_val,
                   last_fin, fin_after_abort>>
    /\ UNCHANGED workVars
    /\ UNCHANGED rootVars
    /\ UNCHANGED sleepVars
    /\ UNCHANGED outerVars
    /\ UNCHANGED jsVars
    /\ UNCHANGED histVars

\* The work panics and the panic aborts (the wasm32 instance traps): the entry
\* point never returns, nothing is dropped, tx stays alive.
WorkPanicsTrap ==
    /\ wpc = "running"
    /\ WorkMayStep
    /\ wpanic = seg + 1
    /\ wpc' = "trapped"
    /\ wend' = "panic_trap"
    /\ UNCHANGED <<desc, seg, abort_flag, complete, data, aborted, opc, join_tag,
                   join_val, last_fin, fin_after_abort>>
    /\ UNCHANGED workVars
    /\ UNCHANGED rootVars
    /\ UNCHANGED sleepVars
    /\ UNCHANGED outerVars
    /\ UNCHANGED jsVars
    /\ UNCHANGED histVars


----------------------------------------------------------------------------
\* tx.send(result).ok(): oneshot Inner::send, one action per atomic operation
\* on the shared channel state, then Sender::drop (Inner::drop_tx).

\* Faulty variant: tx.send(result).unwrap() panics on Err.
OkUnwraps == "panicked"

\* Where the wrapper is after tx.send returned Err(value): .ok() turns it
\* into None, the value is dropped, and the block goes on to its end (tx is
\* dropped).

OkDiscards == "drop_tx"

\* if self.complete.load(SeqCst) { return Err(t) }
SendCheck ==
    /\ wpc = "send_check"
    /\ WorkMayStep
    /\ IF complete
          THEN /\ wpc' = OkDiscards
               /\ wend' = "discarded"
          ELSE /\ wpc' = "send_store"
               /\ UNCHANGED wend
    /\ UNCHANGED <<desc, seg, abort_flag, complete, data, aborted, opc, join_tag,
                   join_val, last_fin, fin_after_abort>>
    /\ UNCHANGED workVars
    /\ UNCHANGED rootVars
    /\ UNCHANGED sleepVars
    /\ UNCHANGED outerVars
    /\ UNCHANGED jsVars
    /\ UNCHANGED histVars

\* Faulty variant: the result is dropped instead of sent.
StoreNothing(v) == <<>>

\* The slot after `*slot = Some(t)`.

Store(v) == <<v>>

\* if let Some(mut slot) = self.data.try_lock() { *slot = Some(t); drop(slot); ... }
\* else { Err(t) }
SendStore ==
    /\ wpc = "send_store"
    /\ WorkMayStep
    /\ IF RxHoldsLock
          THEN /\ wpc' = OkDiscards
               /\ wend' = "discarded"
               /\ UNCHANGED data
          ELSE /\ wpc' = "send_recheck"
               /\ data' = Store(wval)
               /\ UNCHANGED wend
    /\ UNCHANGED <<desc, seg, abort_flag, complete, aborted, opc, join_tag,
                   join_val, last_fin, fin_after_abort>>
    /\ UNCHANGED workVars
    /\ UNCHANGED rootVars
    /\ UNCHANGED sleepVars
    /\ UNCHANGED outerVars
    /\ UNCHANGED jsVars
    /\ UNCHANGED histVars

\* if self.complete.load(SeqCst) { ... pull it back out ... }  Ok(())
SendRecheck ==
    /\ wpc = "send_recheck"
    /\ WorkMayStep
    /\ IF complete
          THEN /\ wpc' = "send_takeback"
               /\ UNCHANGED wend
          ELSE /\ wpc' = "drop_tx"
               /\ wend' = "sent"
    /\ UNCHANGED <<desc, seg, abort_flag, complete, data, aborted, opc, join_tag,
                   join_val, last_fin, fin_after_abort>>
    /\ UNCHANGED workVars
    /\ UNCHANGED rootVars
    /\ UNCHANGED sleepVars
    /\ UNCHANGED outerVars
    /\ UNCHANGED jsVars
    /\ UNCHANGED histVars

\* if let Some(mut slot) = self.data.try_lock() { if let Some(t) = slot.take()
\* { return Err(t) } }  Ok(())
SendTakeBack ==
    /\ wpc = "send_takeback"
    /\ WorkMayStep
    /\ IF RxHoldsLock \/ data = <<>>
          THEN /\ wpc' = "drop_tx"
               /\ wend' = "sent"
               /\ UNCHANGED data
          ELSE /\ wpc' = OkDiscards
               /\ wend' = "discarded"
               /\ data' = <<>>
    /\ UNCHANGED <<desc, seg, abort_flag, complete, aborted, opc, join_tag,
                   join_val, last_fin, fin_after_abort>>
    /\ UNCHANGED workVars
    /\ UNCHANGED rootVars
    /\ UNCHANGED sleepVars
    /\ UNCHANGED outerVars
    /\ UNCHANGED jsVars
    /\ UNCHANGED histVars

\* Sender::drop at the end of the async block: Inner::drop_tx.
DropTx ==
    /\ wpc = "drop_tx"
    /\ WorkMayStep
    /\ wpc' = "done"
    /\ complete' = TRUE
    /\ UNCHANGED <<desc, seg, wend, abort_flag, data, aborted, opc, join_tag,
                   join_val, last_fin, fin_after_abort>>
    /\ UNCHANGED workVars
    /\ UNCHANGED rootVars
    /\ UNCHANGED sleepVars
    /\ UNCHANGED outerVars
    /\ UNCHANGED jsVars
    /\ UNCHANGED histVars

----------------------------------------------------------------------------
\* The owner: JoinHandle::is_finished, abort, join; dropping the handle.

\* Receiver::is_terminated once the lock of the slot is held: the receiver is
\* terminated when the channel is complete and the slot holds no value.
SlotIsSome(d) == Len(d) > 0

SlotIsNone(d) == Len(d) = 0

\* History: the answer r of is_finished() is the first one since abort().
FirstAfterAbort(r) ==
    IF aborted /\ fin_after_abort = "none" THEN r ELSE fin_after_abort

\* is_finished(): self.rx.is_terminated().  complete not set: false.
IsFinishedLoad ==
    /\ opc = "idle"
    /\ OwnerMayStep
    /\ IF complete
          THEN /\ opc' = "isfin_locked"
               /\ UNCHANGED <<last_fin, fin_after_abort>>
          ELSE /\ opc' = "idle"
               /\ last_fin' = "false"
               /\ fin_after_abort' = FirstAfterAbort("false")
    /\ UNCHANGED <<desc, wpc, seg, wend, abort_flag, complete, data, aborted,
                   join_tag, join_val>>
    /\ UNCHANGED workVars
    /\ UNCHANGED rootVars
    /\ UNCHANGED sleepVars
    /\ UNCHANGED outerVars
    /\ UNCHANGED jsVars
    /\ UNCHANGED histVars

\* is_finished(), complete set: if slot.is_some() { return false }  true
IsFinishedSlot ==
    /\ opc = "isfin_locked"
    /\ opc' = "idle"
    /\ last_fin' = IF SlotIsNone(data) THEN "true" ELSE "false"
    /\ fin_after_abort' = FirstAfterAbort(last_fin')
    /\ UNCHANGED <<desc, wpc, seg, wend, abort_flag, complete, data, aborted,
                   join_tag, join_val>>
    /\ UNCHANGED workVars
    /\ UNCHANGED rootVars
    /\ UNCHANGED sleepVars
    /\ UNCHANGED outerVars
    /\ UNCHANGED jsVars
    /\ UNCHANGED histVars

\* Faulty variant: abort() leaves the flag as it is.
SetAbortedForgotten(ab) == ab

\* Faulty variant: the flag is flipped instead of set.
SetAbortedToggles(ab) == ~ab

\* self.aborted = true, given the flag before.

SetAborted(ab) == TRUE

\* Faulty variant: one abort pair for all the levels of a nesting.
SharedAbortPair(outer_flag) == TRUE

\* The abort flag of the outer task after abort() on the handle its body
\* holds: every spawn makes its own AbortHandle::new_pair().

OwnAbortPair(outer_flag) == outer_flag

\* abort(): self.abort_handle.abort(); self.aborted = true;
AbortSignal ==
    /\ opc = "idle"
    /\ OwnerMayStep
    /\ CanAbort(variant)
    /\ opc' = "abort_close"
    /\ abort_flag' = TRUE
    /\ aborted' = SetAborted(aborted)
    /\ fin_after_abort' = "none"
    /\ abort_calls' = IF abort_calls < MaxAborts THEN abort_calls + 1 ELSE abort_calls
    /\ abort_when' = IF abort_when = "never" THEN Progress ELSE abort_when
    /\ abort_after_sent' = (abort_after_sent \/ wend = "sent")
    /\ UNCHANGED <<desc, wpc, seg, wend, complete, data, join_tag, join_val,
                   last_fin, recv_count, close_when, ever_yielded, outer>>
    /\ outer_abort_flag' = OwnAbortPair(outer_abort_flag)
    /\ UNCHANGED workVars
    /\ UNCHANGED rootVars
    /\ UNCHANGED sleepVars
    /\ UNCHANGED jsVars

\* Faulty variant: abort() without self.rx.close().
CloseRxForgotten(c) == c

\* Inner::close_rx: self.complete.store(true, SeqCst), given the flag before.

CloseRx(c) == TRUE

\* abort(): self.rx.close();
AbortClose ==
    /\ opc = "abort_close"
    /\ opc' = "idle"
    /\ complete' = CloseRx(complete)
    /\ close_when' = IF close_when = "never" THEN Progress ELSE close_when
    /\ UNCHANGED <<desc, wpc, seg, wend, abort_flag, data, aborted, join_tag,
                   join_val, last_fin, fin_after_abort, recv_count, abort_when,
                   abort_after_sent, ever_yielded, abort_calls>>
    /\ UNCHANGED workVars
    /\ UNCHANGED rootVars
    /\ UNCHANGED sleepVars
    /\ UNCHANGED outerVars
    /\ UNCHANGED jsVars

\* join(): self.rx.await, Inner::recv.  complete not set: the waker is stored
\* and the poll is Pending; drop_tx or close_rx wake it and it is polled again.
JoinPoll ==
    /\ opc \in {"idle", "joining"}
    /\ OwnerMayStep
    /\ opc = "joining" => (complete /\ ~(outer = "spawn_local" /\ outer_abort_flag))
    /\ opc' = IF complete THEN "join_locked" ELSE "joining"
    /\ ever_yielded' = (ever_yielded \/ ~complete)
    /\ UNCHANGED <<desc, wpc, seg, wend, abort_flag, complete, data, aborted,
                   join_tag, join_val, last_fin, fin_after_abort, recv_count,
                   abort_when, close_when, abort_after_sent, abort_calls>>
    /\ UNCHANGED workVars
    /\ UNCHANGED rootVars
    /\ UNCHANGED sleepVars
    /\ UNCHANGED outerVars
    /\ UNCHANGED jsVars

\* Faulty variant: the two errors exchanged.
JoinErrorSwapped(v, ab) == IF CanAbort(v) /\ ab THEN "Panic" ELSE "Aborted"

\* map_err(|_| if self.aborted { JoinError::Aborted } else { JoinError::Panic });
\* blocking::JoinHandle: map_err(|_| JoinError::Panic)
JoinError(v, ab) == IF CanAbort(v) /\ ab THEN "Aborted" ELSE "Panic"

\* Faulty variant: the aborted flag is looked at before the slot.
JoinOutcomeFlagFirst(d, v, ab) ==
    IF CanAbort(v) /\ ab THEN "Aborted"
    ELSE IF SlotIsSome(d) THEN "Ok" ELSE "Panic"

\* What join() returns once the channel is complete, for slot d of a handle
\* of spawn function v with aborted flag ab: the value if there is one, else
\* the error the flag selects.
JoinOutcome(d, v, ab) == IF SlotIsSome(d) THEN "Ok" ELSE JoinError(v, ab)

\* Faulty variant: the two texts exchanged.
JoinErrorTextSwapped(e) ==
    IF e = "Aborted" THEN "thread panicked" ELSE "thread was aborted"

\* impl Display for JoinError, impl From<JoinError> for JsValue: the text of a
\* join error.

JoinErrorText(e) ==
    IF e = "Aborted" THEN "thread was aborted" ELSE "thread panicked"

\* JsJoinHandle::join: Ok(Ok(value)) => Ok(value), Ok(Err(err)) => Err(err),
\* Err(err) => Err(JsValue::from_str(&err.to_string())).  The returned Result
\* resolves (Ok) or rejects (Err) the host's promise.
JsJoinKind(tag, js) == IF tag = "Ok" /\ js = "fulfilled" THEN "resolve" ELSE "reject"

\* The JS value it resolves or rejects with: the promise's own value or reason;
\* none when join() failed (the rejection is then a text).
JsJoinVal(tag, v) == IF tag = "Ok" THEN v ELSE 0

\* join(), complete set: if let Some(data) = slot.take() { Ready(Ok(data)) }
\* Ready(Err(Canceled)); the handle (and rx) is consumed.
JoinRecv ==
    /\ opc = "join_locked"
    /\ opc' = "joined"
    /\ join_tag' = JoinOutcome(data, variant, aborted)
    /\ join_val' = IF join_tag' = "Ok" THEN data[1] ELSE 0
    /\ data' = <<>>
    /\ recv_count' = IF join_tag' = "Ok" THEN recv_count + 1 ELSE recv_count
    /\ js_kind' = IF IsJs(variant) THEN JsJoinKind(join_tag', wjs) ELSE "none"
    /\ js_val' = IF IsJs(variant) THEN JsJoinVal(join_tag', join_val') ELSE 0
    /\ js_text' = IF join_tag' = "Ok" THEN "" ELSE JoinErrorText(join_tag')
    /\ UNCHANGED <<desc, wpc, seg, wend, abort_flag, complete, aborted, last_fin,
                   fin_after_abort, abort_when, close_when, abort_after_sent,
                   ever_yielded, abort_calls>>
    /\ UNCHANGED workVars
    /\ UNCHANGED rootVars
    /\ UNCHANGED sleepVars
    /\ UNCHANGED outerVars

\* Faulty variant: dropping the handle cancels the work.
AbortOnDropFires(flag) == TRUE

\* The abort flag after the handle's AbortHandle is dropped: AbortHandle has
\* no Drop that aborts, JoinHandle has no Drop at all.

AbortOnDrop(flag) == flag

\* The owner drops the handle without joining: Receiver::drop, Inner::drop_rx
\* sets complete.
DropHandle ==
    /\ opc = "idle"
    /\ OwnerMayStep
    /\ opc' = "dropped"
    /\ complete' = TRUE
    /\ abort_flag' = AbortOnDrop(abort_flag)
    /\ UNCHANGED <<desc, wpc, seg, wend, data, aborted, join_tag,
                   join_val, last_fin, fin_after_abort>>
    /\ UNCHANGED workVars
    /\ UNCHANGED rootVars
    /\ UNCHANGED sleepVars
    /\ UNCHANGED outerVars
    /\ UNCHANGED jsVars
    /\ UNCHANGED histVars

\* The owner awaits something other than the handle (a sleep, a channel) and
\* suspends; its scheduler runs other tasks.
OwnerYields ==
    /\ opc = "idle"
    /\ opc' = "yielded"
    /\ ever_yielded' = TRUE
    /\ UNCHANGED <<desc, wpc, seg, wend, abort_flag, complete, data, aborted,
                   join_tag, join_val, last_fin, fin_after_abort, recv_count,
                   abort_when, close_when, abort_after_sent, abort_calls>>
    /\ UNCHANGED workVars
    /\ UNCHANGED rootVars
    /\ UNCHANGED sleepVars
    /\ UNCHANGED outerVars
    /\ UNCHANGED jsVars

\* The owner is polled again and goes on.
OwnerResumes ==
    /\ opc = "yielded"
    /\ OwnerMayStep
    /\ ~(outer = "spawn_local" /\ outer_abort_flag)
    /\ opc' = "idle"
    /\ UNCHANGED <<desc, wpc, seg, wend, abort_flag, complete, data, aborted,
                   join_tag, join_val, last_fin, fin_after_abort>>
    /\ UNCHANGED workVars
    /\ UNCHANGED rootVars
    /\ UNCHANGED sleepVars
    /\ UNCHANGED outerVars
    /\ UNCHANGED jsVars
    /\ UNCHANGED histVars

----------------------------------------------------------------------------
\* The root caller and the outer task around the owner.

\* The outer task's body has not ended.
OuterBodyRuns == opc \notin {"no_handle", "joined", "dropped", "cancelled"}

\* The root runs: always when the outer task is on a worker; when it is on
\* the root's own thread, only while the owner and its local work are
\* suspended.
RootMayStep == outer = "spawn_local" => (OwnerAtRest /\ OwnerMayStep)

\* The root still holds the outer handle.
RootHoldsHandle == outer # "none" /\ outer_join_tag = "none"

\* The root calls abort() on the outer handle: the outer abort signal fires
\* and the outer channel is closed.
AbortOuter ==
    /\ RootHoldsHandle
    /\ ~outer_abort_flag
    /\ OuterBodyRuns
    /\ RootMayStep
    /\ outer_abort_flag' = TRUE
    /\ outer_complete' = CloseRx(outer_complete)
    /\ UNCHANGED <<desc, wpc, seg, wend, abort_flag, complete, data, aborted, opc,
                   join_tag, join_val, last_fin, fin_after_abort, outer,
                   outer_data, outer_end, outer_fin, outer_join_tag, outer_join_val>>
    /\ UNCHANGED sleepVars
    /\ UNCHANGED workVars
    /\ UNCHANGED jsVars
    /\ UNCHANGED histVars

\* Faulty variant: cancelling the outer task cancels the tasks it spawned.
PropagateAbortToChild(outer_flag, inner_flag) == outer_flag \/ inner_flag

\* The inner abort flag once the outer body, holding the inner handle, has
\* been dropped because the outer flag was set: the inner AbortHandle is
\* dropped without abort() being called on it.

PropagateAbort(outer_flag, inner_flag) == inner_flag

\* Abortable::poll of the outer task finds the outer signal fired (before its
\* first poll, or when it is polled at a suspension point): the outer body is
\* dropped, and with it the handle it holds or is joining.
OuterSeesAbort ==
    /\ outer_abort_flag
    /\ opc \in {"start", "yielded", "joining"}
    /\ OwnerMayStep
    /\ opc' = "cancelled"
    /\ complete' = IF opc = "start" THEN complete ELSE TRUE
    /\ abort_flag' = PropagateAbort(outer_abort_flag, abort_flag)
    /\ outer_end' = "aborted"
    /\ outer_complete' = TRUE
    /\ UNCHANGED <<desc, wpc, seg, wend, data, aborted, join_tag, join_val,
                   last_fin, fin_after_abort, outer_data, outer_fin,
                   outer_join_tag, outer_join_val>>
    /\ UNCHANGED sleepVars
    /\ UNCHANGED workVars
    /\ UNCHANGED outerVars
    /\ UNCHANGED jsVars
    /\ UNCHANGED histVars

\* The value of the outer work, distinct from every value of the inner work.
OuterVal == MaxVal + 1

\* The outer body has returned: the outer wrapper sends its value and drops
\* tx (tx.send(result).ok(), taken as one step); the send is discarded when
\* the outer channel is already closed.
OuterSends ==
    /\ outer # "none"
    /\ outer_end = "none"
    /\ opc \in {"joined", "dropped"}
    /\ outer_end' = IF outer_complete THEN "discarded" ELSE "sent"
    /\ outer_data' = IF outer_complete THEN outer_data ELSE Store(OuterVal)
    /\ outer_complete' = TRUE
    /\ UNCHANGED <<desc, wpc, seg, wend, abort_flag, complete, data, aborted, opc,
                   join_tag, join_val, last_fin, fin_after_abort, outer_fin,
                   outer_join_tag, outer_join_val>>
    /\ UNCHANGED sleepVars
    /\ UNCHANGED workVars
    /\ UNCHANGED outerVars
    /\ UNCHANGED jsVars
    /\ UNCHANGED histVars

\* The spawn call inside the outer body panicked and the panic unwinds: the
\* outer wrapper is dropped, and its tx with it.
OuterBodyUnwinds ==
    /\ outer # "none"
    /\ outer_end = "none"
    /\ opc = "no_handle"
    /\ outer_end' = "panic_unwind"
    /\ outer_complete' = TRUE
    /\ UNCHANGED <<desc, wpc, seg, wend, abort_flag, complete, data, aborted, opc,
                   join_tag, join_val, last_fin, fin_after_abort, outer_data,
                   outer_fin, outer_join_tag, outer_join_val>>
    /\ UNCHANGED sleepVars
    /\ UNCHANGED workVars
    /\ UNCHANGED outerVars
    /\ UNCHANGED jsVars
    /\ UNCHANGED histVars

\* The same panic aborts (traps): nothing is dropped, the outer tx stays alive.
OuterBodyTraps ==
    /\ outer # "none"
    /\ outer_end = "none"
    /\ opc = "no_handle"
    /\ outer_end' = "panic_trap"
    /\ UNCHANGED <<desc, wpc, seg, wend, abort_flag, complete, data, aborted, opc,
                   join_tag, join_val, last_fin, fin_after_abort, outer_complete,
                   outer_data, outer_fin, outer_join_tag, outer_join_val>>
    /\ UNCHANGED sleepVars
    /\ UNCHANGED workVars
    /\ UNCHANGED outerVars
    /\ UNCHANGED jsVars
    /\ UNCHANGED histVars

\* The root calls is_finished() on the outer handle.
RootIsFinished ==
    /\ RootHoldsHandle
    /\ RootMayStep
    /\ outer_fin' = IF outer_complete /\ SlotIsNone(outer_data) THEN "true" ELSE "false"
    /\ UNCHANGED <<desc, wpc, seg, wend, abort_flag, complete, data, aborted, opc,
                   join_tag, join_val, last_fin, fin_after_abort, outer_complete,
                   outer_data, outer_end, outer_join_tag, outer_join_val>>
    /\ UNCHANGED sleepVars
    /\ UNCHANGED workVars
    /\ UNCHANGED outerVars
    /\ UNCHANGED jsVars
    /\ UNCHANGED histVars

\* The root's join() on the outer handle resolves: the outer channel is
\* complete.
RootJoin ==
    /\ RootHoldsHandle
    /\ RootMayStep
    /\ outer_complete
    /\ outer_join_tag' = JoinOutcome(outer_data, outer, outer_abort_flag)
    /\ outer_join_val' = IF outer_join_tag' = "Ok" THEN outer_data[1] ELSE 0
    /\ outer_data' = <<>>
    /\ UNCHANGED <<desc, wpc, seg, wend, abort_flag, complete, data, aborted, opc,
                   join_tag, join_val, last_fin, fin_after_abort, outer_complete,
                   outer_end, outer_fin>>
    /\ UNCHANGED sleepVars
    /\ UNCHANGED workVars
    /\ UNCHANGED outerVars
    /\ UNCHANGED jsVars
    /\ UNCHANGED histVars

----------------------------------------------------------------------------
Next ==
    \/ SpawnOuter
    \/ Spawn
    \/ PollWork
    \/ WorkerInitFails
    \/ WorkSuspends
    \/ WorkReady
    \/ WorkPanicsUnwind
    \/ WorkPanicsTrap
    \/ SendCheck
    \/ SendStore
    \/ SendRecheck
    \/ SendTakeBack
    \/ DropTx
    \/ IsFinishedLoad
    \/ IsFinishedSlot
    \/ AbortSignal
    \/ AbortClose
    \/ JoinPoll
    \/ JoinRecv
    \/ DropHandle
    \/ OwnerYields
    \/ OwnerResumes
    \/ AbortOuter
    \/ OuterSeesAbort
    \/ OuterSends
    \/ OuterBodyUnwinds
    \/ OuterBodyTraps
    \/ RootIsFinished
    \/ RootJoin

Spec == Init /\ [][Next]_vars

----------------------------------------------------------------------------
\* time::sleep and time::sleep_ms, on their own: a caller sleeps for a
\* duration, the host timer fires, the caller goes on.

\* Everything but the sleep.
handleVars == <<workVars, histVars, outerVars, rootVars, jsVars, desc, wpc, seg,
                wend, abort_flag, complete, data, aborted, opc, join_tag,
                join_val, last_fin, fin_after_abort>>

\* Low words the durations are drawn from.
LoSamples == {0, 1, 100, 1000, MaxI32 - 1, MaxI32}

\* The durations a caller can pass: any Duration to sleep, a u32 of
\* milliseconds (below 2^32, so a high word of 0 or 1) to sleep_ms.
Durations(entry) ==
    {d \in [hi : 0..MaxHi, lo : LoSamples] : entry = "sleep_ms" => d.hi <= 1}

\* dur.as_millis() as i32: the u128 is truncated to its low 32 bits, read as
\* two's complement.  Bit 31 is the parity of the high word: when it is set
\* the value is dur_lo - 2^31.
AsI32(hi, lo) == IF hi % 2 = 1 THEN (lo - MaxI32) - 1 ELSE lo

\* sleep(dur) / sleep_ms(ms): Promise::new runs the closure at once; it finds
\* the Window or the WorkerGlobalScope and calls set_timeout with the delay.
SleepCall ==
    /\ sleep_pc = "idle"
    /\ \E entry \in {"sleep", "sleep_ms"} : \E scope \in {"window", "worker"} :
       \E d \in Durations(entry) :
        /\ sleep_entry' = entry
        /\ sleep_scope' = scope
        /\ dur_hi' = d.hi
        /\ dur_lo' = d.lo
        /\ timer_delay' = AsI32(d.hi, d.lo)
    /\ sleep_pc' = "timer_set"
    /\ UNCHANGED handleVars

\* The host timer fires and calls resolve: the JsFuture is ready.
TimerFires ==
    /\ sleep_pc = "timer_set"
    /\ sleep_pc' = "resolved"
    /\ UNCHANGED <<sleep_entry, sleep_scope, dur_hi, dur_lo, timer_delay>>
    /\ UNCHANGED handleVars

\* .await.expect("failed to sleep") returns; the caller may sleep again.
\* The last call stays on record.
SleepReturns ==
    /\ sleep_pc = "resolved"
    /\ sleep_pc' = "idle"
    /\ UNCHANGED <<sleep_entry, sleep_scope, dur_hi, dur_lo, timer_delay>>
    /\ UNCHANGED handleVars

SleepNext ==
    \/ SleepCall
    \/ TimerFires
    \/ SleepReturns

SleepSpec == Init /\ [][SleepNext]_vars


----------------------------------------------------------------------------
\* Properties.

Terminated == wpc \in {"done", "panicked", "trapped"}

Joined == opc = "joined"

AbortCalled == abort_when # "never"

\* C1: for every spawn function, when the work does not panic and abort() is
\* never called, join() returns Ok(v) for the work's value v, and the consumer
\* receives at most one value.
JoinReturnsTheValue ==
    /\ (Joined /\ wpanic = 0 /\ ~AbortCalled) => (join_tag = "Ok" /\ join_val = wval)
    /\ recv_count <= 1

JoinReturnsTheValueReached ==
    /\ Joined
    /\ wpanic = 0
    /\ ~AbortCalled
    /\ wlen > 0
    /\ join_tag = "Ok"
    /\ recv_count = 1

\* C2: when abort() is called while the work is unstarted or in its first
\* segment (no suspension point passed, no value produced yet), the first
\* is_finished() after abort() returns true and join() returns Err(Aborted).
AbortEarlyFinishesAndAborts ==
    abort_when \in {"unstarted", "first_segment"} =>
        /\ fin_after_abort # "false"
        /\ Joined => join_tag = "Aborted"

\* C3: join() returns Err(Aborted) exactly when abort() was called on the
\* handle and no value reached the consumer, and Err(Panic) exactly when no
\* value reached the consumer and abort() was never called.
JoinErrorFollowsAbortHistory ==
    Joined =>
        /\ join_tag = "Aborted" <=> (AbortCalled /\ recv_count = 0)
        /\ join_tag = "Panic" <=> (~AbortCalled /\ recv_count = 0)

JoinErrorFollowsAbortHistoryReached ==
    /\ Joined
    /\ variant = "thread_spawn"
    /\ join_tag = "Aborted"
    /\ wend = "discarded"

\* C4: a handle resolves to exactly one of Ok(v), Err(Aborted), Err(Panic):
\* never a value together with a failure, never a value twice, and a handle
\* whose work has terminated is resolvable (its channel is complete, so
\* join() does not stay pending).
ExactlyOneOutcome ==
    /\ join_tag = "Ok" <=> recv_count = 1
    /\ recv_count <= 1
    /\ Joined => join_tag \in {"Ok", "Aborted", "Panic"}
    /\ Terminated => complete

\* C5: once tx.send has returned Ok (the value is in the channel) and join()
\* has not been called, abort() does not change the result: join() returns
\* Ok(v).
AbortAfterSendKeepsValue ==
    (Joined /\ abort_after_sent) => (join_tag = "Ok" /\ join_val = wval)

AbortAfterSendKeepsValueReached ==
    /\ Joined
    /\ abort_after_sent
    /\ join_tag = "Ok"

\* C6 as stated: abort() before join() makes join() return Err(Aborted),
\* however far the work has progressed.
AbortThenJoinIsAborted ==
    (Joined /\ AbortCalled) => join_tag = "Aborted"

\* C6, amended: when abort() has returned before the work began to send its
\* value, join() returns Err(Aborted).
AbortBeforeSendIsAborted ==
    (Joined /\ close_when \in {"unstarted", "first_segment", "later_segment",
                               "suspended",
                               "before_send", "terminated"})
        => join_tag = "Aborted"

AbortBeforeSendIsAbortedReached ==
    /\ Joined
    /\ close_when = "before_send"
    /\ join_tag = "Aborted"

\* C7: a work that panics before sending has its producer dropped unsent, so
\* the channel is complete (join() does not stay pending) and join() returns
\* Err(Panic) when abort() was never called.
PanicDropsProducer ==
    /\ wpc \in {"panicked", "trapped"} => complete
    /\ (Joined /\ wpc \in {"panicked", "trapped"} /\ ~AbortCalled)
           => join_tag = "Panic"

\* C8: is_finished() returns true whenever the producer is gone, with or
\* without a value left in the channel; in particular after the work has sent
\* its value and before join().
FinishedWhenValueAvailable ==
    [][((IsFinishedLoad \/ IsFinishedSlot) /\ opc' = "idle"
          /\ wpc \in {"done", "panicked"})
        => last_fin' = "true"]_vars

\* C9: once is_finished() has returned true, every later call returns true.
FinishedIsMonotonic ==
    [][last_fin = "true" => last_fin' = "true"]_vars

\* C10: a handle of spawn_blocking is never aborted: its join() does not
\* return Err(Aborted), no abort signal is raised, and the work is never ended
\* by an abort.
BlockingNeverAborted ==
    IsBlocking(variant) =>
        /\ join_tag # "Aborted"
        /\ ~abort_flag
        /\ ~aborted
        /\ wend # "aborted"
        /\ (Terminated /\ wpanic = 0) => wend \in {"sent", "discarded"}

BlockingNeverAbortedReached ==
    /\ IsBlocking(variant)
    /\ Joined
    /\ join_tag = "Ok"
    /\ wend = "sent"

----------------------------------------------------------------------------
\* C11: cancellation is not propagated to children.  When the outer task is
\* aborted while its body holds or is joining the handle of a task it
\* spawned, and abort() was never called on that inner handle, the inner
\* abort signal is not fired, the inner work is never ended by an abort, and
\* when it ends without a panic it has run up to its send.
OuterAbortSparesInner ==
    (outer_abort_flag /\ abort_calls = 0)
        => /\ ~abort_flag
           /\ wend # "aborted"
           /\ (wpc = "done" /\ wpanic = 0) => wend \in {"sent", "discarded"}

OuterAbortSparesInnerReached ==
    /\ opc = "cancelled"
    /\ outer_abort_flag
    /\ abort_calls = 0
    /\ wlen > 0
    /\ wpc = "done"
    /\ wend = "discarded"

\* C12: fire-and-forget is valid.  When the handle is dropped and neither
\* abort() nor join() was called on it, the abort signal is not fired, the
\* work is never ended by an abort, a work that ends without a panic has run
\* up to its send, and a send that finds the channel abandoned leaves nothing
\* behind and ends the work normally.
FireAndForgetRuns ==
    (opc = "dropped" /\ abort_calls = 0)
        => /\ ~abort_flag
           /\ wend # "aborted"
           /\ join_tag = "none"
           /\ (wpc = "done" /\ wpanic = 0) => wend \in {"sent", "discarded"}
           /\ wend = "discarded" => (data = <<>> /\ wpc \in {"drop_tx", "done"})

FireAndForgetRunsReached ==
    /\ opc = "dropped"
    /\ abort_calls = 0
    /\ ~ever_yielded
    /\ wlen > 0
    /\ wpc = "done"
    /\ wend = "discarded"

\* C13: the leaked work descriptor is reclaimed exactly once on every path.
\* After a successful transfer only the worker's entry point reclaims it,
\* after a failed transfer only the sender drops it, never both; and it is
\* unreclaimed only while the transfer is in flight (the worker has not yet
\* started), never left so.
DescriptorReclaimedOnce ==
    /\ desc \in {"none", "never_leaked", "leaked", "reclaimed_by_worker",
                 "dropped_by_sender"}
    /\ desc = "reclaimed_by_worker"
          => (opc # "no_handle" /\ wpc \notin {"none", "queued", "init_failed"})
    /\ desc = "dropped_by_sender" => (opc = "no_handle" /\ wpc = "none")
    /\ (IsWorker(variant) /\ wpc \notin {"none", "queued", "init_failed"})
          => desc = "reclaimed_by_worker"
    /\ desc = "leaked" => wpc = "queued"

AbortIsIdempotent ==
    [][((AbortSignal \/ AbortClose) /\ close_when # "never")
          => UNCHANGED <<aborted, abort_flag, complete, data>>]_vars

AbortIsIdempotentReached ==
    /\ abort_calls = 2
    /\ Joined
    /\ join_tag = "Aborted"
    /\ wend = "aborted"

\* C16: is_finished() is side-effect-free.  No step of is_finished() changes
\* the handle or the channel, and a send that takes its value back out of a
\* closed channel does so whether or not is_finished() is running, so the
\* join() that follows returns what it returns without the call.
IsFinishedHasNoEffect ==
    [][/\ (IsFinishedLoad \/ IsFinishedSlot)
             => UNCHANGED <<aborted, abort_flag, complete, data, join_tag>>
       /\ (SendTakeBack /\ opc = "isfin_locked") => data' = <<>>]_vars

\* The owner holds the handle and is running (it is not suspended).
OwnerHoldsHandle == opc \in {"idle", "isfin_locked", "abort_close", "join_locked"}

JoinFailureText ==
    /\ join_tag = "Aborted" <=> js_text = "thread was aborted"
    /\ join_tag = "Panic" <=> js_text = "thread panicked"
    /\ join_tag \in {"none", "Ok"} <=> js_text = ""
    /\ (Joined /\ IsJs(variant))
          => /\ (join_tag = "Ok" /\ wjs = "fulfilled")
                    => (js_kind = "resolve" /\ js_val = wval)
             /\ (join_tag = "Ok" /\ wjs = "rejected")
                    => (js_kind = "reject" /\ js_val = wval)
             /\ join_tag # "Ok" => (js_kind = "reject" /\ js_val = 0)
    /\ ~(Joined /\ IsJs(variant)) => (js_kind = "none" /\ js_val = 0)

JoinFailureTextReached ==
    /\ Joined
    /\ variant = "js_spawn"
    /\ wjs = "rejected"
    /\ join_tag = "Aborted"
    /\ js_kind = "reject"
    /\ js_text = "thread was aborted"

\* C19: abort racing with completion favours Aborted.  When abort() is
\* signalled while the work is executing a segment and before it has sent
\* its value, the work's send is discarded and join() returns Err(Aborted).
AbortWhileRunningIsAborted ==
    abort_when \in {"first_segment", "later_segment"}
        => /\ wend # "sent"
           /\ Joined => join_tag = "Aborted"

\* C20: once the wrapped work observes the abort signal at a check point it
\* terminates without completing.  A work that was unstarted or suspended
\* when the signal fired observes it at its next poll; having observed it,
\* the work is done for good, no value was or is sent on its channel, no
\* value is received, and the producer is dropped unsent (the channel is
\* complete and empty).
AbortObservedEndsWork ==
    /\ (abort_when \in {"unstarted", "suspended"} /\ wpc \notin {"queued", "suspended"})
          => wend = "aborted"
    /\ wend = "aborted"
          => /\ wpc = "done"
             /\ complete
             /\ data = <<>>
             /\ recv_count = 0
             /\ join_tag # "Ok"

AbortObservedEndsWorkReached ==
    /\ abort_when = "suspended"
    /\ wend = "aborted"
    /\ seg < wlen
    /\ Joined
    /\ join_tag = "Aborted"

----------------------------------------------------------------------------
\* C21: join() resolves whenever the work has terminated (normally,
\* abnormally, or by an abort observed at a check point), and once abort()
\* has returned it resolves without a further step of the work: in both
\* cases the channel is complete, which is all a polled join() waits for.
JoinCanResolve ==
    /\ Terminated => complete
    /\ close_when # "never" => complete

SendAfterDisconnectIsNoOp ==
    /\ wend = "discarded"
          => /\ wpc \in {"drop_tx", "done"}
             /\ data = <<>>
             /\ recv_count = 0
             /\ wpc = "done" => complete
    /\ (wpc = "done" /\ wpanic = 0 /\ wend # "aborted"
            /\ close_when \in {"unstarted", "first_segment", "later_segment",
                               "suspended", "before_send"})
          => wend = "discarded"

SendAfterDisconnectIsNoOpReached ==
    /\ IsBlocking(variant)
    /\ opc = "dropped"
    /\ wpc = "done"
    /\ wend = "discarded"

\* C24: the handle's aborted flag starts false at spawn, is set only by
\* abort() on that handle and is never reset; so once abort() has been
\* called join() never returns Err(Panic), even when the work had already
\* terminated abnormally before abort() was called.
AbortedFlagIsSticky ==
    /\ aborted <=> abort_calls > 0
    /\ aborted => abort_flag
    /\ (Joined /\ abort_calls > 0) => join_tag # "Panic"

AbortedFlagIsStickyReached ==
    /\ wend = "panic_unwind"
    /\ abort_when = "terminated"
    /\ abort_calls = 2
    /\ Joined
    /\ join_tag = "Aborted"

\* C25: is_finished() returning true implies that no value will be
\* delivered: a join() that follows an is_finished() that returned true
\* returns an Err, never Ok(v).
FinishedTrueThenJoinErr ==
    [][(JoinRecv /\ last_fin = "true") => join_tag' # "Ok"]_vars

\* The same spawn function in the other module (thread <-> task).
Twin(v) ==
    CASE v = "task_spawn" -> "thread_spawn"
      [] v = "thread_spawn" -> "task_spawn"
      [] v = "task_spawn_local" -> "thread_spawn_local"
      [] v = "thread_spawn_local" -> "task_spawn_local"
      [] OTHER -> v

----------------------------------------------------------------------------
\* A delay, an i32, is at least the duration hi * 2^31 + lo: no i32 reaches
\* 2^31, so the high word must be 0.
DelayCovers(delay, hi, lo) == hi = 0 /\ delay >= lo

\* C27: for every duration dur, sleep(dur) requests a timer delay of at
\* least dur in milliseconds, also when the millisecond count does not fit
\* in a signed 32-bit integer: the delay passed to the host timer is never
\* smaller than dur's milliseconds and never negative.
SleepDelayCoversDuration ==
    sleep_entry # "none"
        => /\ timer_delay >= 0
           /\ DelayCovers(timer_delay, dur_hi, dur_lo)
====
